---- MODULE Spec2Model ----
(***************************************************************************)
(* FalconMC networking core: the per-connection I/O loop                   *)
(* (FalconConnection::start), the NetworkState it owns, and the task       *)
(* bridge (ConnectionWrapper / ServerWrapper) through which other actors   *)
(* enqueue deferred operations.                                            *)
(***************************************************************************)
EXTENDS Integers, Sequences, FiniteSets, Bags, TLC

\* ------------------------------------------------------------------ bounds
\* total number of enqueue calls made over one behaviour
MaxOps == 3
\* number of (kind, id, versions) mappings handed to validate_mappings
MaxMappings == 3
\* number of frames (well-formed or not) a client sends on one connection
MaxItems == 2

\* ------------------------------------------------------------------ inputs
\* the encoded sizes of the packets handed to send_packet
PacketSizes == {1}
\* the timestamps reset_keep_alive can observe
Times == {1}
\* the values of `elapsed` that callers pass to keep_alive
Elapsed == {2, 3}

\* ------------------------------------------------------- program constants
UNKNOWN_PROTOCOL == -1

Phase == {"Handshake", "Status", "Login", "Play", "Disconnected"}

\* a handle and its clone: both hold the same queue producer
Handles == {"h1", "h2"}

Uuids == {"u1"}

\* the packet kinds (syn::Type), packet ids and protocol versions that occur
\* in the mapping tables given to validate_mappings
Types == {"A", "B"}
Ids == {1, 2, 3}
Versions == {5, 6}

\* LitIntValue
Number(n) == [tag |-> "Number", n |-> n]
AnyValue == [tag |-> "Any", n |-> 0]

\* the version lists a mapping can carry
VersionLists == {<<Number(5)>>, <<Number(6)>>, <<AnyValue>>, <<Number(5), Number(6)>>}

\* what a client puts on the wire: the frame for packet id 0x00 with an
\* empty payload (length 1, then the id), a frame with one byte of payload,
\* and five length bytes that all carry the continuation bit
Frame0 == [kind |-> "frame", bytes |-> <<1, 0>>]
Frame1 == [kind |-> "frame", bytes |-> <<2, 0, 7>>]
Overlong == [kind |-> "malformed", bytes |-> <<128, 128, 128, 128, 128>>]

\* the streams a client sends over the life of its connection
Items == {Frame0, Frame1, Overlong}
Streams == UNION {[1..n -> Items] : n \in 1..MaxItems}

\* one `id = versions` line of one packet kind
Mappings == [ty : Types, id : Ids, versions : VersionLists]

VARIABLES
    state,        \* FalconConnection.state : NetworkState
    writer,       \* FalconConnection.writer: bytes waiting in the outbound buffer
    shutdown,     \* the process-wide shutdown signal has fired
    pc,           \* position of the connection loop: "running" | "done", or
                  \* "extracting" inside a frame-extraction loop without end
    lastEvent,    \* the select! branch the connection loop took last
    connQueue,    \* queue behind ConnectionWrapper.link
    connLog,      \* the operations the connection loop has executed, in order
    serverQueue,  \* queue behind ServerWrapper.link
    serverLog,    \* the operations the server loop has executed, in order
    serverRunning,\* the server's consumer loop is alive (its queue is open)
    players,      \* server-owned state: the players that are logged in
    calls,        \* number of enqueue calls made so far
    connSent,     \* per handle: operations the connection's queue accepted
    serverSent,   \* per handle: operations the server's queue accepted
    lastRet,      \* what the last enqueue call returned to its caller
    mappings,     \* validate_mappings: its argument, one mapping per element
    cursor,       \* validate_mappings: the mapping the loops reach next
    result,       \* validate_mappings: result.packet_to_versions
    diags,        \* the diagnostics emit_error! has recorded, per span
    wire,         \* what the peer has still to send, the item in transit first
    reader,       \* the bytes in the inbound buffer (McReader)
    dispatched,   \* number of frames next_packet has handed to the loop
    completed,    \* number of frames whose last byte the loop has read
    frameErr,     \* next_packet returned Err during the last read
    idsOut        \* the packet ids MinecraftConnection::send_packet was
                  \* called with, in order

vars == <<state, writer, shutdown, pc, lastEvent, connQueue, connLog,
          serverQueue, serverLog, serverRunning, players,
          calls, connSent, serverSent, lastRet,
          mappings, cursor, result, diags,
          wire, reader, dispatched, completed, frameErr, idsOut>>

connVars == <<state, writer, pc, lastEvent>>
serverVars == <<serverQueue, serverLog, serverRunning, players>>
sentVars == <<calls, connSent, serverSent, lastRet>>
checkVars == <<mappings, cursor, result, diags>>
readVars == <<wire, reader, dispatched, completed, frameErr>>
outVars == <<idsOut>>
netVars == <<connVars, shutdown, connQueue, connLog, serverVars, sentVars,
             readVars, outVars>>

\* ---------------------------------------------------------- NetworkState
NetworkState_new(protocol) ==
    [keepalive |-> 0, protocol |-> protocol, phase |-> "Handshake"]

has_remaining(w) == w > 0

\* the exit test shared by the write branch and the read branch
DrainedExitNoDrain(w, st) == st.phase = "Disconnected"

DrainedExitAnyPhase(w, st) == ~has_remaining(w)

DrainedExit(w, st) == ~has_remaining(w) /\ st.phase = "Disconnected"

\* the connection, the server and the handles right after construction
NetInit ==
    /\ state = NetworkState_new(UNKNOWN_PROTOCOL)
    /\ writer = 0
    /\ shutdown = FALSE
    /\ pc = "running"
    /\ lastEvent = "none"
    /\ connQueue = <<>>
    /\ connLog = <<>>
    /\ serverQueue = <<>>
    /\ serverLog = <<>>
    /\ serverRunning = TRUE
    /\ players = {}
    /\ calls = 0
    /\ connSent = [h \in Handles |-> 0]
    /\ serverSent = [h \in Handles |-> 0]
    /\ lastRet = "none"
    /\ reader = <<>>
    /\ dispatched = 0
    /\ completed = 0
    /\ frameErr = FALSE
    /\ idsOut = <<>>

\* VersionMappings::default(): no packet kind has a PacketVersions yet; an
\* id without an entry in PacketVersions.mappings has the empty list here
VersionMappings_default == [t \in Types |-> [i \in Ids |-> <<>>]]

Init ==
    /\ NetInit
    /\ wire = <<Frame0>>
    /\ mappings = <<>>
    /\ cursor = 1
    /\ result = VersionMappings_default
    /\ diags = EmptyBag

\* ------------------------------------------------------------- McReader
\* VarInt: seven value bits per byte, the high bit set on all but the last
\* byte, at most five bytes
CONTINUE_BIT == 128
MAX_VARINT_BYTES == 5

RECURSIVE VarIntValue(_, _)
VarIntValue(buf, size) ==
    IF size = 0 THEN 0
    ELSE (buf[size] % CONTINUE_BIT) * CONTINUE_BIT ^ (size - 1)
            + VarIntValue(buf, size - 1)

\* decode the VarInt at the front of buf: its value and size, "incomplete"
\* when buf ends inside it, "malformed" when the fifth byte still carries
\* the continuation bit
read_varint(buf) ==
    LET n == IF Len(buf) < MAX_VARINT_BYTES THEN Len(buf) ELSE MAX_VARINT_BYTES
        last == {i \in 1..n : buf[i] < CONTINUE_BIT}
    IN IF last # {}
       THEN LET size == CHOOSE i \in last : \A j \in last : i <= j
            IN [status |-> "ok", size |-> size, value |-> VarIntValue(buf, size)]
       ELSE IF n = MAX_VARINT_BYTES
       THEN [status |-> "malformed", size |-> n, value |-> 0]
       ELSE [status |-> "incomplete", size |-> 0, value |-> 0]

\* McReader::next_packet -> Result<Option<frame>>: Ok(Some) takes one whole
\* frame out of the buffer, Ok(None) leaves a partial frame where it is, Err
\* discards the length it could not decode
next_packetKeepsOnErr(buf) ==
    LET len == read_varint(buf) IN
    CASE len.status = "incomplete" -> [result |-> "none", rest |-> buf]
      [] len.status = "malformed" -> [result |-> "err", rest |-> buf]
      [] Len(buf) - len.size < len.value -> [result |-> "none", rest |-> buf]
      [] OTHER ->
            [result |-> "some",
             rest |-> SubSeq(buf, len.size + len.value + 1, Len(buf))]

next_packetEager(buf) ==
    LET len == read_varint(buf) IN
    CASE len.status = "incomplete" -> [result |-> "none", rest |-> buf]
      [] len.status = "malformed" ->
            [result |-> "err", rest |-> SubSeq(buf, len.size + 1, Len(buf))]
      [] OTHER ->
            LET end == IF Len(buf) < len.size + len.value THEN Len(buf)
                       ELSE len.size + len.value
            IN [result |-> "some", rest |-> SubSeq(buf, end + 1, Len(buf))]

next_packet(buf) ==
    LET len == read_varint(buf) IN
    CASE len.status = "incomplete" -> [result |-> "none", rest |-> buf]
      [] len.status = "malformed" ->
            [result |-> "err", rest |-> SubSeq(buf, len.size + 1, Len(buf))]
      [] Len(buf) - len.size < len.value -> [result |-> "none", rest |-> buf]
      [] OTHER ->
            [result |-> "some",
             rest |-> SubSeq(buf, len.size + len.value + 1, Len(buf))]

\* while let Some(_packet) = reader.next_packet().transpose() { }: Ok(None)
\* ends the loop; a frame and an error both go round again. A turn that
\* takes at least one byte out of the buffer can happen acc.turns times at
\* most; a loop that needs more turns than that never ends
RECURSIVE extract_frames(_)
extract_frames(acc) ==
    LET r == next_packet(acc.reader) IN
    CASE r.result = "none" -> acc
      [] acc.turns = 0 -> [acc EXCEPT !.endless = TRUE]
      [] r.result = "some" ->
            extract_frames([acc EXCEPT !.reader = r.rest, !.frames = @ + 1,
                                       !.turns = @ - 1])
      [] r.result = "err" ->
            extract_frames([acc EXCEPT !.reader = r.rest, !.err = TRUE,
                                       !.turns = @ - 1])

\* the peer's side of read_buf: the next k bytes of what it sends, what it
\* has left to send, and how many frames those bytes complete
RECURSIVE Receive(_, _)
Receive(w, k) ==
    IF k = 0 \/ w = <<>> THEN [bytes |-> <<>>, wire |-> w, frames |-> 0]
    ELSE LET item == Head(w) IN
         IF k < Len(item.bytes)
         THEN [bytes |-> SubSeq(item.bytes, 1, k),
               wire |-> <<[item EXCEPT !.bytes = SubSeq(@, k + 1, Len(@))]>>
                            \o Tail(w),
               frames |-> 0]
         ELSE LET r == Receive(Tail(w), k - Len(item.bytes))
              IN [bytes |-> item.bytes \o r.bytes,
                  wire |-> r.wire,
                  frames |-> r.frames + IF item.kind = "frame" THEN 1 ELSE 0]

RECURSIVE Pending(_)
Pending(w) == IF w = <<>> THEN 0 ELSE Len(Head(w).bytes) + Pending(Tail(w))

\* ------------------------------------------------ FalconConnection::start
\* the shutdown broadcast fires
FireShutdown ==
    /\ ~shutdown
    /\ shutdown' = TRUE
    /\ UNCHANGED <<connVars, connQueue, connLog, serverVars, sentVars, checkVars, readVars,
                   outVars>>

\* branch 1: wait_for_shutdown() completed
ShutdownBranchDrained ==
    /\ pc = "running"
    /\ shutdown
    /\ ~has_remaining(writer)
    /\ pc' = "done"
    /\ lastEvent' = "shutdown"
    /\ UNCHANGED <<state, writer, shutdown, connQueue, connLog,
                   serverVars, sentVars, checkVars, readVars, outVars>>

ShutdownBranchDisconnects ==
    /\ pc = "running"
    /\ shutdown
    /\ pc' = "done"
    /\ lastEvent' = "shutdown"
    /\ state' = [state EXCEPT !.phase = "Disconnected"]
    /\ UNCHANGED <<writer, shutdown, connQueue, connLog,
                   serverVars, sentVars, checkVars, readVars, outVars>>

ShutdownBranch ==
    /\ pc = "running"
    /\ shutdown
    /\ pc' = "done"
    /\ lastEvent' = "shutdown"
    /\ UNCHANGED <<state, writer, shutdown, connQueue, connLog,
                   serverVars, sentVars, checkVars, readVars, outVars>>

\* branch 2, future dropped: write_all_buf moved k bytes to the transport and
\* was still pending when another branch of the select! completed
WritePartial ==
    /\ pc = "running"
    /\ has_remaining(writer)
    /\ \E k \in 1..(writer - 1) : writer' = writer - k
    /\ UNCHANGED <<state, shutdown, pc, lastEvent, connQueue, connLog,
                   serverVars, sentVars, checkVars, readVars, outVars>>

\* branch 2, res = Ok: the whole buffer went out
WriteOk ==
    /\ pc = "running"
    /\ has_remaining(writer)
    /\ writer' = 0
    /\ lastEvent' = "write_ok"
    /\ pc' = IF DrainedExit(writer', state) THEN "done" ELSE "running"
    /\ UNCHANGED <<state, shutdown, connQueue, connLog, serverVars, sentVars, checkVars,
                   readVars, outVars>>

\* branch 2, res = Err
WriteErrNoBreak ==
    /\ pc = "running"
    /\ has_remaining(writer)
    /\ state' = [state EXCEPT !.phase = "Disconnected"]
    /\ lastEvent' = "write_err"
    /\ UNCHANGED <<pc, writer, shutdown, connQueue, connLog,
                   serverVars, sentVars, checkVars, readVars, outVars>>

WriteErr ==
    /\ pc = "running"
    /\ has_remaining(writer)
    /\ state' = [state EXCEPT !.phase = "Disconnected"]
    /\ pc' = "done"
    /\ lastEvent' = "write_err"
    /\ UNCHANGED <<writer, shutdown, connQueue, connLog,
                   serverVars, sentVars, checkVars, readVars, outVars>>

\* branch 3, n = Ok(0): the other end closed the connection
ReadEof ==
    /\ pc = "running"
    /\ state' = [state EXCEPT !.phase = "Disconnected"]
    /\ pc' = "done"
    /\ lastEvent' = "read_eof"
    /\ UNCHANGED <<writer, shutdown, connQueue, connLog,
                   serverVars, sentVars, checkVars, readVars, outVars>>

\* branch 3, n = Ok(n), n > 0: the frames are extracted (and not yet parsed),
\* then the exit test
ReadData ==
    /\ pc = "running"
    /\ \E k \in 1..Pending(wire) :
          LET rx == Receive(wire, k)
              ex == extract_frames([reader |-> reader \o rx.bytes,
                                    frames |-> 0, err |-> FALSE,
                                    turns |-> Len(reader \o rx.bytes),
                                    endless |-> FALSE])
          IN /\ wire' = rx.wire
             /\ completed' = completed + rx.frames
             /\ reader' = ex.reader
             /\ dispatched' = dispatched + ex.frames
             /\ frameErr' = ex.err
             /\ pc' = IF ex.endless THEN "extracting"
                      ELSE IF DrainedExit(writer, state) THEN "done"
                      ELSE "running"
    /\ lastEvent' = "read_data"
    /\ UNCHANGED <<state, writer, shutdown, connQueue, connLog,
                   serverVars, sentVars, checkVars, outVars>>

\* branch 3, n = Err(err): the error is logged
ReadErr ==
    /\ pc = "running"
    /\ lastEvent' = "read_err"
    /\ UNCHANGED <<state, writer, shutdown, pc, connQueue, connLog,
                   serverVars, sentVars, checkVars, readVars, outVars>>

\* --------------------------------------------------------- the task bridge
\* UnboundedSender::send: the operation goes to the back of the queue while
\* the receiving loop is alive, and is handed back (Err) once it is gone
LinkSendFront(q, open, op) == IF open THEN <<op>> \o q ELSE q

LinkSendTwice(q, open, op) == IF open THEN Append(Append(q, op), op) ELSE q

LinkSendLossy(q, open, op) == IF open /\ q = <<>> THEN Append(q, op) ELSE q

LinkSendAlways(q, open, op) == Append(q, op)

LinkSend(q, open, op) == IF open THEN Append(q, op) ELSE q

\* the receiving end of the connection's queue lives as long as its loop
ConnQueueOpen == pc = "running"

ServerQueueOpen == serverRunning

\* a boxed closure on its way: who sent it, to whom, as that handle's n-th
\* accepted operation, and what it does
Op(target, h, n, task) ==
    [target |-> target, handle |-> h, seq |-> n, task |-> task]

Executed(op) == [target |-> op.target, handle |-> op.handle, seq |-> op.seq]

Accepted(sentCount, h, open) ==
    IF open THEN [sentCount EXCEPT ![h] = @ + 1] ELSE sentCount

\* the packet id of Keep Alive in protocol v1_13 (0x21)
KEEP_ALIVE_ID == 33

\* what a ConnectionTask does to the connection it is run on
\*   keep_alive       : the closure of PacketSend::keep_alive, which sets the
\*                      timestamp and hands one packet to send_packet
\*   reset_keep_alive : connection.reset_keep_alive()
\*   send_packet      : connection.send_packet(packet, write_fn)
\*   set_phase        : a closure given to execute_sync that writes
\*                      connection.state_mut().phase
ApplyConnTask(task, now, st, w) ==
    CASE task.kind = "reset_keep_alive" ->
            [state |-> [st EXCEPT !.keepalive = now], writer |-> w]
      [] task.kind = "send_packet" ->
            [state |-> st, writer |-> w + task.arg]
      [] task.kind = "set_phase" ->
            [state |-> [st EXCEPT !.phase = task.arg], writer |-> w]
      [] task.kind = "keep_alive" ->
            [state |-> [st EXCEPT !.keepalive = task.arg.elapsed],
             writer |-> w + task.arg.size]

\* the packet ids a ConnectionTask passes to MinecraftConnection::send_packet
PacketIds(task) ==
    IF task.kind = "keep_alive" THEN <<KEEP_ALIVE_ID>> ELSE <<>>

\* the closures callers hand to execute_sync: one that moves the connection
\* on to Play and one that disconnects it
SyncTasks == [kind : {"set_phase"}, arg : {"Play", "Disconnected"}]

\* ConnectionWrapper: every method boxes a closure and sends it; the result
\* of the send is dropped (.ok()) and the method returns ()
ConnEnqueueInline(h, task) ==
    LET r == ApplyConnTask(task, CHOOSE t \in Times : TRUE, state, writer) IN
    /\ calls < MaxOps
    /\ calls' = calls + 1
    /\ state' = r.state
    /\ writer' = r.writer
    /\ lastRet' = "unit"
    /\ UNCHANGED <<pc, lastEvent, shutdown, connQueue, connLog, connSent,
                   serverSent, serverVars, checkVars, readVars, outVars>>

ConnEnqueue(h, task) ==
    /\ calls < MaxOps
    /\ calls' = calls + 1
    /\ connQueue' = LinkSend(connQueue, ConnQueueOpen,
                             Op("conn", h, connSent[h] + 1, task))
    /\ connSent' = Accepted(connSent, h, ConnQueueOpen)
    /\ lastRet' = "unit"
    /\ UNCHANGED <<connVars, shutdown, connLog, serverSent, serverVars, checkVars, readVars,
                   outVars>>

reset_keep_alive(h) ==
    ConnEnqueue(h, [kind |-> "reset_keep_alive", arg |-> 0])

send_packet(h, n) ==
    ConnEnqueue(h, [kind |-> "send_packet", arg |-> n])

execute_sync(h, task) == ConnEnqueue(h, task)

\* the closure PacketSend::keep_alive boxes: the timestamp to set and the
\* encoded size of the KeepAlivePacket it sends
KeepAliveTask(elapsed, n) ==
    [kind |-> "keep_alive", arg |-> [elapsed |-> elapsed, size |-> n]]

CouldNotSend == "Could not send Keep Alive packet"

\* PacketSend::keep_alive: get_client_connection().send(..).map_err(..)
keep_aliveEager(h, elapsed, n) ==
    /\ calls < MaxOps
    /\ calls' = calls + 1
    /\ connQueue' = LinkSend(connQueue, ConnQueueOpen,
                             Op("conn", h, connSent[h] + 1,
                                KeepAliveTask(elapsed, n)))
    /\ connSent' = Accepted(connSent, h, ConnQueueOpen)
    /\ lastRet' = IF ConnQueueOpen THEN "Ok" ELSE CouldNotSend
    /\ state' = [state EXCEPT !.keepalive = elapsed]
    /\ UNCHANGED <<writer, pc, lastEvent, shutdown, connLog, serverSent,
                   serverVars, checkVars, readVars, outVars>>

keep_alive(h, elapsed, n) ==
    /\ calls < MaxOps
    /\ calls' = calls + 1
    /\ connQueue' = LinkSend(connQueue, ConnQueueOpen,
                             Op("conn", h, connSent[h] + 1,
                                KeepAliveTask(elapsed, n)))
    /\ connSent' = Accepted(connSent, h, ConnQueueOpen)
    /\ lastRet' = IF ConnQueueOpen THEN "Ok" ELSE CouldNotSend
    /\ UNCHANGED <<connVars, shutdown, connLog, serverSent, serverVars,
                   checkVars, readVars, outVars>>

\* branch 4 of the connection loop: a deferred operation arrived; it is taken
\* from the front of the queue and run on the connection inside this iteration
RecvTask ==
    /\ pc = "running"
    /\ connQueue # <<>>
    /\ \E now \in Times :
          LET op == Head(connQueue)
              r == ApplyConnTask(op.task, now, state, writer) IN
          /\ state' = r.state
          /\ writer' = r.writer
          /\ connLog' = Append(connLog, Executed(op))
          /\ idsOut' = idsOut \o PacketIds(op.task)
    /\ connQueue' = Tail(connQueue)
    /\ lastEvent' = "task"
    /\ UNCHANGED <<shutdown, pc, serverVars, sentVars, checkVars, readVars>>

\* ServerActor for ServerWrapper: the six forwarders
ServerMethods == {"request_status", "player_login", "login_success",
                  "player_leave", "player_update_pos_look",
                  "player_update_view_distance"}

\* what a McTask does to the server it is run on; the players' positions and
\* view distances are not part of this model
ApplyServerTask(task, ps) ==
    CASE task.kind = "login_success" -> ps \cup {task.arg}
      [] task.kind = "player_leave" -> ps \ {task.arg}
      [] OTHER -> ps

ServerEnqueue(h, task) ==
    /\ calls < MaxOps
    /\ calls' = calls + 1
    /\ serverQueue' = LinkSend(serverQueue, ServerQueueOpen,
                               Op("server", h, serverSent[h] + 1, task))
    /\ serverSent' = Accepted(serverSent, h, ServerQueueOpen)
    /\ UNCHANGED <<connVars, shutdown, connQueue, connLog, connSent,
                   serverLog, serverRunning, players, checkVars, readVars,
                   outVars>>

\* the closure a forwarder boxes: it calls the same method on the server; the
\* methods whose effect lies outside the modelled state box the same task
ForwardTask(m, u) ==
    [kind |-> IF m \in {"login_success", "player_leave"} THEN m ELSE "other",
     arg |-> u]

\* request_status .. player_update_view_distance: send(..).ignore()
ServerForward(h, m, u) ==
    /\ ServerEnqueue(h, ForwardTask(m, u))
    /\ lastRet' = "unit"

\* the closures callers hand to ServerWrapper::execute
McTasks == [kind : {"login_success", "player_leave"}, arg : Uuids]

\* ServerWrapper::execute: send(..).map_err(|_| ThreadSendError)
executeUnchecked(h, task) ==
    /\ ServerEnqueue(h, task)
    /\ lastRet' = "Ok"

execute(h, task) ==
    /\ ServerEnqueue(h, task)
    /\ lastRet' = IF ServerQueueOpen THEN "Ok" ELSE "ThreadSendError"

\* the server's consumer loop: take the next task and run it on the server
ServerRecv ==
    /\ serverRunning
    /\ serverQueue # <<>>
    /\ LET op == Head(serverQueue) IN
          /\ players' = ApplyServerTask(op.task, players)
          /\ serverLog' = Append(serverLog, Executed(op))
    /\ serverQueue' = Tail(serverQueue)
    /\ UNCHANGED <<connVars, shutdown, connQueue, connLog, serverRunning,
                   sentVars, checkVars, readVars, outVars>>

\* the server's consumer loop ends with the process
ServerStop ==
    /\ serverRunning
    /\ shutdown
    /\ serverRunning' = FALSE
    /\ UNCHANGED <<connVars, shutdown, connQueue, connLog, serverQueue,
                   serverLog, players, sentVars, checkVars, readVars,
                   outVars>>

ConnNext ==
    \/ FireShutdown
    \/ ShutdownBranch
    \/ WritePartial
    \/ WriteOk
    \/ WriteErr
    \/ ReadEof
    \/ ReadData
    \/ ReadErr
    \/ RecvTask
    \/ \E h \in Handles : reset_keep_alive(h)
    \/ \E h \in Handles, n \in PacketSizes : send_packet(h, n)
    \/ \E h \in Handles, t \in SyncTasks : execute_sync(h, t)

ServerNext ==
    \/ \E h \in Handles, m \in ServerMethods, u \in Uuids : ServerForward(h, m, u)
    \/ \E h \in Handles, t \in McTasks : execute(h, t)
    \/ ServerRecv
    \/ ServerStop

Next == ConnNext \/ ServerNext

Spec == Init /\ [][Next]_vars

\* one connection and the handles that address it
ConnSpec == Init /\ [][ConnNext]_vars

\* select! polls its branches in random order, so a branch that stays ready is
\* taken after finitely many iterations
FairConnSpec ==
    /\ ConnSpec
    /\ WF_vars(ShutdownBranch)
    /\ WF_vars(RecvTask)

\* a connection whose handles nobody uses: what is left of the loop is the
\* shutdown branch and the read branch, and the peer sends any of Streams
ReadInit ==
    /\ NetInit
    /\ wire \in Streams
    /\ mappings = <<>>
    /\ cursor = 1
    /\ result = VersionMappings_default
    /\ diags = EmptyBag

ReadNext ==
    \/ FireShutdown
    \/ ShutdownBranch
    \/ ReadEof
    \/ ReadData
    \/ ReadErr

ReadSpec == ReadInit /\ [][ReadNext]_vars

\* a connection whose players are sent Keep Alive packets: the loop without
\* its read of data, and the two operations that write the timestamp
KeepAliveNext ==
    \/ FireShutdown
    \/ ShutdownBranch
    \/ WriteOk
    \/ WriteErr
    \/ ReadEof
    \/ RecvTask
    \/ \E h \in Handles : reset_keep_alive(h)
    \/ \E h \in Handles, e \in Elapsed, n \in PacketSizes : keep_alive(h, e, n)

KeepAliveSpec == Init /\ [][KeepAliveNext]_vars

\* ------------------------------------------------------------- check.rs
\* LitIntBool: a version (or id) literal, where it stands in the input, and
\* its flag
LitIntBool(value, span) == [value |-> value, span |-> span, toggle |-> FALSE]

is_true(v) == v.toggle

toggle(v) == [v EXCEPT !.toggle = ~@]

logical_eqExact(a, b) == a.value = b.value

logical_eq(a, b) ==
    CASE a.value.tag = "Any" -> TRUE
      [] OTHER -> CASE b.value.tag = "Number" -> a.value.n = b.value.n
                    [] OTHER -> TRUE

MultipleIds == "The same packet has multiple ids for the this version"
SharedId == "Different packets share the same id for this version"

\* emit_error!(span, msg)
emit_error(errs, span, msg) ==
    errs (+) SetToBag({[span |-> span, msg |-> msg]})

\* versions.iter_mut().find(|v| v.logical_eq(&version)): the position of the
\* first match, 0 if there is none
findFirst(versions, version) ==
    IF Len(versions) > 0 /\ logical_eq(versions[1], version) THEN 1 ELSE 0

find(versions, version) ==
    LET hits == {i \in 1..Len(versions) : logical_eq(versions[i], version)}
    IN IF hits = {} THEN 0
       ELSE CHOOSE i \in hits : \A j \in hits : i <= j

\* PacketVersions::insert, the closure of for_each: one other id p of the
\* same kind against the version being inserted; acc holds the kind's
\* mappings, the version with its flag, and the diagnostics
insert_for_each(acc, p) ==
    LET i == find(acc.m[p], acc.version) IN
    IF i = 0 THEN acc
    ELSE LET v == acc.m[p][i]
             fresh == ~is_true(v)
         IN [m |-> IF fresh THEN [acc.m EXCEPT ![p][i] = toggle(v)] ELSE acc.m,
             version |-> toggle(acc.version),
             errs |-> emit_error(
                        IF fresh THEN emit_error(acc.errs, v.span, MultipleIds)
                        ELSE acc.errs,
                        acc.version.span, MultipleIds)]

\* self.mappings.iter_mut().filter(|(&p, _)| p != id).for_each(..): the map
\* is visited in an order of its own; each visit toggles and reports on its
\* own account, so that every order ends in the same acc
RECURSIVE insert_others(_, _)
insert_others(acc, ps) ==
    IF ps = {} THEN acc
    ELSE LET p == CHOOSE x \in ps : TRUE
         IN insert_others(insert_for_each(acc, p), ps \ {p})

\* mapping.contains(&version): LitIntBool compares by value alone
contains(versions, version) ==
    \E i \in 1..Len(versions) : versions[i].value = version.value

\* PacketVersions::insert, the body of `for mut version in versions`
insert_versionBelow(st, id, version) ==
    LET acc == insert_others([m |-> st.m, version |-> version,
                              errs |-> st.errs], {p \in Ids : p < id})
        keep == ~is_true(acc.version) /\ ~contains(acc.m[id], acc.version)
    IN [m |-> IF keep THEN [acc.m EXCEPT ![id] = Append(@, acc.version)]
              ELSE acc.m,
        errs |-> acc.errs,
        result |-> IF keep THEN Append(st.result, acc.version) ELSE st.result]

insert_version(st, id, version) ==
    LET acc == insert_others([m |-> st.m, version |-> version,
                              errs |-> st.errs], Ids \ {id})
        keep == ~is_true(acc.version) /\ ~contains(acc.m[id], acc.version)
    IN [m |-> IF keep THEN [acc.m EXCEPT ![id] = Append(@, acc.version)]
              ELSE acc.m,
        errs |-> acc.errs,
        result |-> IF keep THEN Append(st.result, acc.version) ELSE st.result]

\* PacketVersions::insert(id, versions): m is the kind's mappings; gives the
\* mappings afterwards, the diagnostics, and the versions that were stored
RECURSIVE insert_from(_, _, _, _)
insert_from(st, id, versions, k) ==
    IF k > Len(versions) THEN st
    ELSE insert_from(insert_version(st, id, versions[k]), id, versions, k + 1)

insert(m, id, versions, errs) ==
    insert_from([m |-> m, errs |-> errs, result |-> <<>>], id, versions, 1)

\* PacketVersions::has_id_version
has_id_versionAnyId(m, id, version) ==
    \E p \in Ids : \E i \in 1..Len(m[p]) : logical_eq(m[p][i], version)

has_id_versionExact(m, id, version) ==
    \E i \in 1..Len(m[id]) : logical_eqExact(m[id][i], version)

has_id_version(m, id, version) ==
    \E i \in 1..Len(m[id]) : logical_eq(m[id][i], version)

\* validate_mappings, lines 30-38: one stored version against every other
\* kind; the flag of the local copy lets the first hit report
RECURSIVE check_kinds(_, _, _, _, _)
check_kinds(table, ts, id, version, errs) ==
    IF ts = {} THEN errs
    ELSE LET t == CHOOSE x \in ts : TRUE
             hit == has_id_version(table[t], id, version) /\ ~is_true(version)
         IN check_kinds(table, ts \ {t}, id,
                        IF hit THEN toggle(version) ELSE version,
                        IF hit THEN emit_error(errs, version.span, SharedId)
                        ELSE errs)

RECURSIVE check_unique(_, _, _, _, _, _)
check_unique(table, ty, id, unique, k, errs) ==
    IF k > Len(unique) THEN errs
    ELSE check_unique(table, ty, id, unique, k + 1,
                      check_kinds(table, Types \ {ty}, id, unique[k], errs))

\* the versions of the n-th mapping as LitIntBool: each carries its span
Literals(n, versions) ==
    [k \in 1..Len(versions) |->
        LitIntBool(versions[k], [mapping |-> n, version |-> k])]

\* validate_mappings, the body of `for mapping in packet_mapping.mappings`:
\* insert the mapping into its kind, then check what was stored against
\* the other kinds
validate_mapping(acc, n, mapping) ==
    LET ins == insert(acc.table[mapping.ty], mapping.id,
                      Literals(n, mapping.versions), acc.errs)
        table == [acc.table EXCEPT ![mapping.ty] = ins.m]
    IN [table |-> table,
        errs |-> check_unique(table, mapping.ty, mapping.id, ins.result, 1,
                              ins.errs)]

\* validate_mappings(ms): the loops over all of ms, from the n-th mapping on
RECURSIVE validate_from(_, _, _)
validate_from(acc, ms, n) ==
    IF n > Len(ms) THEN acc
    ELSE validate_from(validate_mapping(acc, n, ms[n]), ms, n + 1)

validate_mappings(ms) ==
    validate_from([table |-> VersionMappings_default, errs |-> EmptyBag],
                  ms, 1)

\* the tables validate_mappings is called with
CheckInit ==
    /\ NetInit
    /\ wire = <<>>
    /\ mappings \in UNION {[1..n -> Mappings] : n \in 1..MaxMappings}
    /\ cursor = 1
    /\ result = VersionMappings_default
    /\ diags = EmptyBag

\* one turn of the loops of validate_mappings
ValidateMapping ==
    /\ cursor <= Len(mappings)
    /\ LET r == validate_mapping([table |-> result, errs |-> diags],
                                 cursor, mappings[cursor])
       IN /\ result' = r.table
          /\ diags' = r.errs
    /\ cursor' = cursor + 1
    /\ UNCHANGED <<mappings, netVars>>

CheckNext == ValidateMapping

\* validate_mappings on its own
CheckSpec == CheckInit /\ [][CheckNext]_vars

\* ------------------------------------------------------------- properties
\* number of times operation n of handle h, addressed to target, occurs in s
Occurrences(s, target, h, n) ==
    Cardinality({i \in 1..Len(s) :
                    s[i].target = target /\ s[i].handle = h /\ s[i].seq = n})

\* the sequence numbers of handle h in s, in the order they occur
SeqsOf(s, h) ==
    LET own == SelectSeq(s, LAMBDA e : e.handle = h)
    IN [i \in 1..Len(own) |-> own[i].seq]

Counting(n) == [i \in 1..n |-> i]

C2_EofDrainsBeforeExit ==
    (lastEvent = "read_eof" /\ has_remaining(writer) /\ ~shutdown)
        => pc = "running"

\* C3: a failed transport read forces the phase to Disconnected
C3_ReadErrDisconnects ==
    lastEvent = "read_err" => state.phase = "Disconnected"

\* C4: a failed transport write leaves the phase Disconnected and the loop
\* ended, and nothing more is taken out of the outbound buffer afterwards
C4_WriteErrStops ==
    /\ [](lastEvent = "write_err" =>
              state.phase = "Disconnected" /\ pc = "done")
    /\ [][lastEvent = "write_err" => writer' = writer]_vars

C4_Witness ==
    lastEvent = "write_err" /\ has_remaining(writer)

\* C5: with the phase Disconnected and bytes still buffered, the loop ends
\* only through shutdown, a write error, a peer close, or with the buffer
\* empty; and the write that empties the buffer ends the loop
C5_DrainThenExit ==
    [][(pc = "running" /\ state.phase = "Disconnected" /\ has_remaining(writer))
        => /\ pc' = "done" =>
                \/ lastEvent' \in {"shutdown", "write_err", "read_eof"}
                \/ ~has_remaining(writer')
           /\ (~has_remaining(writer') /\ state'.phase = "Disconnected")
                => pc' = "done"]_vars

C5_Witness ==
    /\ pc = "done"
    /\ lastEvent = "write_ok"
    /\ state.phase = "Disconnected"
    /\ ~has_remaining(writer)

\* C6: once the shutdown signal has fired the connection loop terminates,
\* whatever its phase and whatever is left in the outbound buffer
C6_ShutdownTerminates == shutdown ~> (pc = "done")

C6_Witness ==
    /\ pc = "done"
    /\ lastEvent = "shutdown"
    /\ has_remaining(writer)
    /\ state.phase # "Disconnected"

C8_PerHandleOrder ==
    \A h \in Handles :
        /\ SeqsOf(connLog \o connQueue, h) = Counting(connSent[h])
        /\ SeqsOf(serverLog \o serverQueue, h) = Counting(serverSent[h])

C8_Witness ==
    \/ /\ Len(connLog) = 3
       /\ connLog[1].handle = connLog[3].handle
       /\ connLog[1].handle # connLog[2].handle
    \/ /\ Len(serverLog) = 3
       /\ serverLog[1].handle = serverLog[2].handle
       /\ serverLog[2].handle = serverLog[3].handle

\* C9 (as claimed): once both loops have ended, every accepted operation has
\* been executed exactly once, by the actor it was addressed to
C9_ExactlyOnce ==
    (pc = "done" /\ ~serverRunning) =>
        \A h \in Handles :
            /\ \A n \in 1..connSent[h] :
                  Occurrences(connLog, "conn", h, n) = 1
            /\ \A n \in 1..serverSent[h] :
                  Occurrences(serverLog, "server", h, n) = 1

\* C9 (amended): an accepted operation is executed at most once and only by
\* the actor it was addressed to; it is executed exactly once when that
\* actor's loop dequeues it, and never when the loop ends first
C9_AtMostOnce ==
    /\ \A i \in 1..Len(connLog) :
          /\ connLog[i].target = "conn"
          /\ connLog[i].seq <= connSent[connLog[i].handle]
    /\ \A i \in 1..Len(serverLog) :
          /\ serverLog[i].target = "server"
          /\ serverLog[i].seq <= serverSent[serverLog[i].handle]
    /\ \A h \in Handles :
          /\ \A n \in 1..connSent[h] :
                /\ Occurrences(connLog, "conn", h, n) <= 1
                /\ Occurrences(connQueue, "conn", h, n)
                     = 1 - Occurrences(connLog, "conn", h, n)
          /\ \A n \in 1..serverSent[h] :
                /\ Occurrences(serverLog, "server", h, n) <= 1
                /\ Occurrences(serverQueue, "server", h, n)
                     = 1 - Occurrences(serverLog, "server", h, n)

C9_Witness ==
    /\ pc = "done"
    /\ connLog # <<>>
    /\ connQueue # <<>>
    /\ serverLog # <<>>

\* C10: an enqueue call leaves both actors' state and both execution logs as
\* they were; an operation takes effect only in a step of the receiving loop
C10_NoInlineExecution ==
    [][calls' # calls =>
          UNCHANGED <<state, writer, pc, lastEvent, connLog,
                      players, serverLog, serverRunning>>]_vars

C10_Witness ==
    /\ state = NetworkState_new(UNKNOWN_PROTOCOL)
    /\ players = {}
    /\ connLog = <<>>
    /\ serverLog = <<>>
    /\ \E i \in 1..Len(connQueue) : connQueue[i].task.kind = "set_phase"
    /\ \E i \in 1..Len(serverQueue) : serverQueue[i].task.kind = "login_success"

\* the operations the queues have accepted from all handles together
AcceptedTotal(sentCount) ==
    LET RECURSIVE Sum(_)
        Sum(hs) == IF hs = {} THEN 0
                   ELSE LET h == CHOOSE x \in hs : TRUE
                        IN sentCount[h] + Sum(hs \ {h})
    IN Sum(Handles)

\* an enqueue call that neither queue accepted: its target queue was closed
RefusedCall ==
    calls' # calls /\ connSent' = connSent /\ serverSent' = serverSent

PhaseRank(p) ==
    CASE p = "Handshake" -> 0
      [] p \in {"Status", "Login"} -> 1
      [] p = "Play" -> 2
      [] p = "Disconnected" -> 3

C20_ShutdownLeavesState ==
    /\ [][(pc = "running" /\ lastEvent' = "shutdown") =>
             (pc' = "done" /\ state' = state /\ writer' = writer)]_vars
    /\ [][(pc = "done" /\ lastEvent = "shutdown") =>
             (state' = state /\ writer' = writer)]_vars

C20_Witness ==
    /\ pc = "done"
    /\ lastEvent = "shutdown"
    /\ state.phase = "Play"
    /\ writer = 1

\* validate_mappings has gone through its whole argument
Validated == cursor > Len(mappings)

\* the diagnostics recorded so far
Diagnostics == BagToSet(diags)

\* the version numbers mapping i lists explicitly, and whether it lists `_`
ExplicitVersions(i) ==
    {mappings[i].versions[k].n :
        k \in {x \in 1..Len(mappings[i].versions) :
                  mappings[i].versions[x].tag = "Number"}}

HasWildcard(i) ==
    \E k \in 1..Len(mappings[i].versions) : mappings[i].versions[k].tag = "Any"

\* mapping i can match the version that stands at span
MatchesSpan(i, span) ==
    LET version == mappings[span.mapping].versions[span.version] IN
    \/ version.tag = "Any"
    \/ HasWildcard(i)
    \/ version.n \in ExplicitVersions(i)

\* C12: two mappings of different kinds with the same id and a version they
\* both list make validation report an error, on one of the two or as a
\* shared id; and a shared id is only ever reported on a version that an
\* earlier mapping of another kind with the same id can match too, so never
\* for disjoint explicit version sets
C12_SharedIdReported ==
    Validated =>
        /\ \A i, j \in 1..Len(mappings) :
              (/\ mappings[i].ty # mappings[j].ty
               /\ mappings[i].id = mappings[j].id
               /\ ExplicitVersions(i) \cap ExplicitVersions(j) # {})
                  => \E e \in Diagnostics :
                        \/ e.msg = SharedId
                        \/ e.span.mapping \in {i, j}
        /\ \A e \in Diagnostics :
              e.msg = SharedId =>
                  \E i \in 1..(e.span.mapping - 1) :
                      /\ mappings[i].ty # mappings[e.span.mapping].ty
                      /\ mappings[i].id = mappings[e.span.mapping].id
                      /\ MatchesSpan(i, e.span)

C12_Witness ==
    /\ Validated
    /\ Len(mappings) = 3
    /\ mappings[1] = [ty |-> "A", id |-> 1, versions |-> <<Number(5)>>]
    /\ mappings[2] = [ty |-> "B", id |-> 1, versions |-> <<Number(6)>>]
    /\ mappings[3] = [ty |-> "B", id |-> 1, versions |-> <<Number(5)>>]
    /\ diags = SetToBag({[span |-> [mapping |-> 3, version |-> 1],
                          msg |-> SharedId]})

\* C13: two mappings of one kind that list the same version under different
\* ids make validation report 'same packet has multiple ids' on one of the
\* two, whichever of them comes first
C13_MultipleIdsReported ==
    Validated =>
        \A i, j \in 1..Len(mappings) :
            (/\ mappings[i].ty = mappings[j].ty
             /\ mappings[i].id # mappings[j].id
             /\ ExplicitVersions(i) \cap ExplicitVersions(j) # {})
                => \E e \in Diagnostics :
                      /\ e.msg = MultipleIds
                      /\ e.span.mapping \in {i, j}

C13_Witness ==
    /\ Validated
    /\ Len(mappings) = 2
    /\ mappings[1] = [ty |-> "A", id |-> 2, versions |-> <<Number(5)>>]
    /\ mappings[2] = [ty |-> "A", id |-> 1, versions |-> <<Number(5)>>]
    /\ diags = SetToBag({[span |-> [mapping |-> 1, version |-> 1],
                          msg |-> MultipleIds],
                         [span |-> [mapping |-> 2, version |-> 1],
                          msg |-> MultipleIds]})

\* C14: a wildcard under one id stands for the versions the kind does not
\* list under its other ids, so that 'same packet has multiple ids' is
\* reported only when two ids of a kind list the same explicit version or
\* both list the wildcard; a kind with id X for an explicit version and id Y
\* for the wildcard gets no such diagnostic
C14_WildcardIsTheRest ==
    Validated =>
        ((\E e \in Diagnostics : e.msg = MultipleIds) =>
            \E i, j \in 1..Len(mappings) :
                /\ mappings[i].ty = mappings[j].ty
                /\ mappings[i].id # mappings[j].id
                /\ \/ ExplicitVersions(i) \cap ExplicitVersions(j) # {}
                   \/ HasWildcard(i) /\ HasWildcard(j))

\* the number of diagnostics recorded on one span
DiagnosticsOn(span) ==
    CopiesIn([span |-> span, msg |-> MultipleIds], diags)
        + CopiesIn([span |-> span, msg |-> SharedId], diags)

\* C15: no entry of the input (a version listed under an id of a kind)
\* gets more than one diagnostic
C15_OneDiagnosticPerEntry ==
    \A e \in Diagnostics : DiagnosticsOn(e.span) = 1

\* the table that validation built lists version n of kind ty under id:
\* explicitly, or through a wildcard while no other id of the kind lists n
ListsExplicitly(ty, id, n) ==
    \E k \in 1..Len(result[ty][id]) : result[ty][id][k].value = Number(n)

Resolves(ty, id, n) ==
    \/ ListsExplicitly(ty, id, n)
    \/ /\ \E k \in 1..Len(result[ty][id]) : result[ty][id][k].value = AnyValue
       /\ \A p \in Ids \ {id} : ~ListsExplicitly(ty, p, n)

\* C16: when validation has reported nothing, every listed version is in
\* the table, every (version, id) resolves to at most one kind and every
\* (kind, version) to at most one id
C16_AcceptedIsUnambiguous ==
    (Validated /\ diags = EmptyBag) =>
        /\ \A i \in 1..Len(mappings) :
              \A k \in 1..Len(mappings[i].versions) :
                  \E x \in 1..Len(result[mappings[i].ty][mappings[i].id]) :
                      result[mappings[i].ty][mappings[i].id][x].value
                          = mappings[i].versions[k]
        /\ \A n \in Versions :
              /\ \A id \in Ids :
                    Cardinality({ty \in Types : Resolves(ty, id, n)}) <= 1
              /\ \A ty \in Types :
                    Cardinality({id \in Ids : Resolves(ty, id, n)}) <= 1

C16_Witness ==
    /\ Validated
    /\ diags = EmptyBag
    /\ Len(mappings) = 3
    /\ mappings[1] = [ty |-> "A", id |-> 1, versions |-> <<Number(5)>>]
    /\ mappings[2] = [ty |-> "A", id |-> 2, versions |-> <<Number(6)>>]
    /\ mappings[3] = [ty |-> "B", id |-> 3, versions |-> <<AnyValue>>]

\* C17: the frames handed to the loop are at all times exactly the frames
\* whose last byte has been read, so a frame that arrives in pieces is
\* dispatched once, with the read that completes it, and not before; the
\* bytes of an item that is still in transit stay in the inbound buffer
C17_SplitFrameOnce ==
    /\ dispatched = completed
    /\ reader # <<>> =>
          /\ wire # <<>>
          /\ reader \o Head(wire).bytes
                \in {item.bytes : item \in Items}

C17_Witness ==
    /\ lastEvent = "read_data"
    /\ reader = <<2>>
    /\ dispatched = 1
    /\ wire = <<[kind |-> "frame", bytes |-> <<0, 7>>]>>

\* C18: when frame extraction has returned an error the connection is
\* dropped: its phase is Disconnected and its loop has terminated
C18_FrameErrorDrops ==
    frameErr => (state.phase = "Disconnected" /\ pc = "done")

\* C21: when the loop has ended through any branch but the shutdown branch
\* (a write error, a zero-length read, the exit test after a write or after
\* a read), the phase is Disconnected
C21_ExitMeansDisconnected ==
    (pc = "done" /\ lastEvent # "shutdown") => state.phase = "Disconnected"

C21_Witness ==
    /\ pc = "done"
    /\ lastEvent = "read_data"
    /\ state.phase = "Disconnected"

C24_NoConflictStored ==
    \A ty \in Types : \A p, q \in Ids :
        p # q =>
            \A i \in 1..Len(result[ty][p]) : \A j \in 1..Len(result[ty][q]) :
                ~logical_eq(result[ty][p][i], result[ty][q][j])

\* the (kind, id, version) entries that a list of mappings is made of
Entries(ms) ==
    UNION {{[ty |-> ms[i].ty, id |-> ms[i].id, value |-> ms[i].versions[k]] :
               k \in 1..Len(ms[i].versions)} : i \in 1..Len(ms)}

\* two entries that no table may hold together: one kind under two ids, or
\* two kinds under one id, for versions that logically match
Clash(a, b) ==
    /\ \/ a.ty = b.ty /\ a.id # b.id
       \/ a.ty # b.ty /\ a.id = b.id
    /\ \/ a.value.tag = "Any"
       \/ b.value.tag = "Any"
       \/ a.value.n = b.value.n

\* the mappings listed in the order f
Reordered(f) == [i \in DOMAIN mappings |-> mappings[f[i]]]

\* the order that exchanges mapping i with the one after it; every order of
\* the mappings is a chain of such exchanges
Exchange(i) ==
    [j \in DOMAIN mappings |->
        IF j = i THEN i + 1 ELSE IF j = i + 1 THEN i ELSE j]

\* the mappings with the versions of every mapping listed backwards
Backwards ==
    [i \in DOMAIN mappings |->
        [mappings[i] EXCEPT !.versions =
            [k \in DOMAIN @ |-> @[Len(@) + 1 - k]]]]

\* C25: whether validate_mappings reports an error does not depend on the
\* order of the input: once a table is validated, the table with any two
\* neighbouring mappings exchanged, and the table with the versions of each
\* mapping listed backwards, is rejected exactly when the table itself was
\* (every table of the bound is checked, so this carries over to every
\* order), and a table is rejected exactly when two of its (kind, id,
\* version) entries clash, which no order changes.
C25_OrderIndependent ==
    Validated =>
        /\ \A i \in 1..(Len(mappings) - 1) :
              (validate_mappings(Reordered(Exchange(i))).errs # EmptyBag)
                 <=> (diags # EmptyBag)
        /\ (validate_mappings(Backwards).errs # EmptyBag) <=> (diags # EmptyBag)
        /\ (diags # EmptyBag)
              <=> \E a, b \in Entries(mappings) : Clash(a, b)

\* a rejected table of three mappings one of whose orders is rejected with
\* other diagnostics
C25_Witness ==
    /\ Validated
    /\ Len(mappings) = 3
    /\ diags # EmptyBag
    /\ \E i \in 1..2 :
          LET errs == validate_mappings(Reordered(Exchange(i))).errs
          IN BagCardinality(errs) # BagCardinality(diags)

\* a call of ServerWrapper::execute: the one enqueue that returns a Result
ExecuteCall ==
    /\ calls' # calls
    /\ lastRet' \in {"Ok", "ThreadSendError"}
    /\ connSent' = connSent

\* C26: ServerWrapper::execute returns Err(ThreadSendError) exactly when the
\* server's task queue is closed; the queue is then left as it was, stays
\* closed, and nothing is executed on the server any more; on an open queue
\* it returns Ok and its task is the new last element of the server's queue
C26_ExecuteResult ==
    [][/\ ExecuteCall =>
             /\ (lastRet' = "ThreadSendError") <=> ~ServerQueueOpen
             /\ ~ServerQueueOpen =>
                    UNCHANGED <<serverQueue, serverLog, players, serverSent>>
             /\ ServerQueueOpen =>
                    /\ lastRet' = "Ok"
                    /\ Len(serverQueue') = Len(serverQueue) + 1
                    /\ SubSeq(serverQueue', 1, Len(serverQueue)) = serverQueue
                    /\ LET op == serverQueue'[Len(serverQueue')]
                       IN /\ op.target = "server"
                          /\ op.task \in McTasks
                          /\ op.seq = serverSent'[op.handle]
                    /\ UNCHANGED <<serverLog, players>>
       /\ ~ServerQueueOpen =>
             /\ ~ServerQueueOpen'
             /\ UNCHANGED <<serverLog, players>>]_vars

\* execute was refused after an earlier execute had been accepted behind
\* another task, and the accepted task has since been run
C26_Witness ==
    /\ lastRet = "ThreadSendError"
    /\ ~serverRunning
    /\ AcceptedTotal(serverSent) = 2
    /\ Len(serverLog) = 2
    /\ players # {}

\* a call of PacketSend::keep_alive, and the step of the connection loop
\* that runs the closure such a call has boxed
KeepAliveCall ==
    /\ calls' # calls
    /\ lastRet' \in {"Ok", CouldNotSend}
    /\ serverSent' = serverSent

KeepAliveRun ==
    /\ connLog' # connLog
    /\ Head(connQueue).task.kind = "keep_alive"

\* C27: keep_alive changes the last-keepalive timestamp only in the step in
\* which the connection executes its deferred operation: that step sets the
\* timestamp to `elapsed` and hands the Keep Alive packet (id 0x21) to
\* send_packet; the call itself leaves the timestamp, the outbound buffer
\* and the packets sent unchanged, and on a closed queue it returns an error
\* and enqueues nothing, so that its packet is never sent
C27_KeepAliveDeferred ==
    [][/\ KeepAliveRun =>
             LET arg == Head(connQueue).task.arg
             IN /\ state'.keepalive = arg.elapsed
                /\ idsOut' = Append(idsOut, KEEP_ALIVE_ID)
                /\ writer' = writer + arg.size
       /\ KeepAliveCall =>
             /\ UNCHANGED <<state, writer, idsOut, connLog>>
             /\ (lastRet' = CouldNotSend) <=> ~ConnQueueOpen
             /\ ~ConnQueueOpen => UNCHANGED <<connQueue, connSent>>
             /\ ConnQueueOpen => Len(connQueue') = Len(connQueue) + 1
       /\ (state'.keepalive # state.keepalive /\ state'.keepalive \in Elapsed)
             => KeepAliveRun
       /\ idsOut' # idsOut => KeepAliveRun
       /\ ~ConnQueueOpen => UNCHANGED <<state, idsOut, connLog>>]_vars

\* one keep_alive was executed, with the timestamp it carried and its packet
\* sent, and a later keep_alive was refused by the closed queue
C27_Witness ==
    /\ pc = "done"
    /\ lastRet = CouldNotSend
    /\ state.keepalive = 3
    /\ idsOut = <<KEEP_ALIVE_ID>>
    /\ Len(connLog) = 1
====
